---- MODULE Spec2Model ----
(***************************************************************************)
(* Model of the Obsidian MCP server (ObsidianServer.handleToolCall and its *)
(* VaultClient) and of the CallTool handler of the Jira/Confluence server. *)
(* Strings are sequences of UTF-16 code units, so that substring           *)
(* tests, trimming, path joins and the front-matter pattern are computed   *)
(* the way the code computes them.                                         *)
(*                                                                         *)
(* Spec runs every tool call to completion. LinkSpec runs get_note over    *)
(* bodies made of link texts. InterleavedSpec follows two invocations on   *)
(* one VaultClient from await to await. ClientSpec follows the requests of *)
(* the Confluence client. PageSpec follows a caller of                     *)
(* searchPagesOptimized from page to page. LifecycleSpec follows the calls *)
(* of ObsidianServer.start and close from await to await. ExcerptSpec runs *)
(* search_notes over notes longer than the context of an excerpt, TagSpec  *)
(* runs list_tags over vaults of three top-level notes.                    *)
(***************************************************************************)
EXTENDS Integers, Sequences, FiniteSets, TLC

VARIABLES vaultPath, vault, request, response, storageOps, remoteCalls,
          invocations, client, lifecycle

vars ==
  <<vaultPath, vault, request, response, storageOps, remoteCalls,
    invocations, client, lifecycle>>

-----------------------------------------------------------------------------
(* Bounds of the model *)

MaxLimit == 2

MaxPieces == 3

\* The most pages of the remote wiki that match a search
MaxTotal == 5

\* The most calls of ObsidianServer.start that are followed
MaxStarts == 2

-----------------------------------------------------------------------------
(* String primitives of the JavaScript runtime *)

NL == "\n"

Whitespace == {" ", NL}

Includes(s, sub) ==
  \E i \in 0..(Len(s) - Len(sub)) : SubSeq(s, i + 1, i + Len(sub)) = sub

IndexOf(s, sub) ==
  IF Includes(s, sub)
  THEN CHOOSE i \in 0..(Len(s) - Len(sub)) :
         /\ SubSeq(s, i + 1, i + Len(sub)) = sub
         /\ \A j \in 0..(i - 1) : SubSeq(s, j + 1, j + Len(sub)) # sub
  ELSE -1

StartsWith(s, pre) == Len(pre) <= Len(s) /\ SubSeq(s, 1, Len(pre)) = pre

EndsWith(s, suf) ==
  Len(suf) <= Len(s) /\ SubSeq(s, Len(s) - Len(suf) + 1, Len(s)) = suf

LowerChar(c) ==
  CASE c = "A" -> "a"
    [] c = "E" -> "e"
    [] c = "S" -> "s"
    [] c = "T" -> "t"
    [] c = "X" -> "x"
    [] OTHER -> c

\* The capital I with a dot above, one UTF-16 code unit
DottedI == "U+0130"

\* The code units of the lower case of one code unit: String.prototype
\* .toLowerCase gives two units, i and the combining dot above, for U+0130
LowerUnits(c) ==
  IF c = DottedI THEN <<"i", "U+0307">> ELSE <<LowerChar(c)>>

\* String.prototype.toLowerCase: the lower-case units of every unit of s, in
\* order. before(i) is the number of units the first i units of s give.
ToLowerCase(s) ==
  LET before(i) == i + Cardinality({j \in 1..i : s[j] = DottedI})
      unitAt(k) ==
        LET i == CHOOSE m \in 1..Len(s) : before(m - 1) < k /\ k <= before(m)
        IN LowerUnits(s[i])[k - before(i - 1)]
  IN IF \A j \in 1..Len(s) : s[j] # DottedI
     THEN [i \in 1..Len(s) |-> LowerChar(s[i])]
     ELSE [k \in 1..before(Len(s)) |-> unitAt(k)]

RECURSIVE TrimStart(_)
TrimStart(s) ==
  IF s # <<>> /\ Head(s) \in Whitespace THEN TrimStart(Tail(s)) ELSE s

RECURSIVE TrimEnd(_)
TrimEnd(s) ==
  IF s # <<>> /\ s[Len(s)] \in Whitespace
  THEN TrimEnd(SubSeq(s, 1, Len(s) - 1))
  ELSE s

Trim(s) == TrimEnd(TrimStart(s))

MdExt == <<".", "m", "d">>

\* s.replace(/\.md$/, '')
StripMd(s) == IF EndsWith(s, MdExt) THEN SubSeq(s, 1, Len(s) - 3) ELSE s

\* s.split('/')
RECURSIVE Split(_)
Split(s) ==
  IF ~ Includes(s, <<"/">>)
  THEN <<s>>
  ELSE LET i == IndexOf(s, <<"/">>)
       IN <<SubSeq(s, 1, i)>> \o Split(SubSeq(s, i + 2, Len(s)))

\* s.split('/').pop()
LastSegment(s) == LET parts == Split(s) IN parts[Len(parts)]

-----------------------------------------------------------------------------
(* path.join and path.relative of the runtime, on absolute POSIX paths     *)
(* without '.' and '..' segments                                           *)

RECURSIVE CollapseSlashes(_)
CollapseSlashes(s) ==
  IF Len(s) < 2 THEN s
  ELSE IF s[1] = "/" /\ s[2] = "/" THEN CollapseSlashes(Tail(s))
  ELSE <<s[1]>> \o CollapseSlashes(Tail(s))

StripTrailingSlash(s) ==
  IF Len(s) > 1 /\ s[Len(s)] = "/" THEN SubSeq(s, 1, Len(s) - 1) ELSE s

join(a, b) == StripTrailingSlash(CollapseSlashes(a \o <<"/">> \o b))

relative(from, to) ==
  LET f == StripTrailingSlash(CollapseSlashes(from))
      t == StripTrailingSlash(CollapseSlashes(to))
  IN IF t = f THEN <<>>
     ELSE IF StartsWith(t, f \o <<"/">>)
          THEN SubSeq(t, Len(f) + 2, Len(t))
          ELSE t   \* not under `from`: never the case for join(from, ...)

-----------------------------------------------------------------------------
(* The file store: a directory is the sequence of its entries in the order *)
(* fs.readdir lists them.                                                  *)

File(name, raw, readable) ==
  [name |-> name, raw |-> raw, readable |-> readable, isDir |-> FALSE,
   children |-> <<>>, birthtime |-> 1, mtime |-> 2]

Dir(name, children) ==
  [name |-> name, raw |-> <<>>, readable |-> TRUE, isDir |-> TRUE,
   children |-> children, birthtime |-> 1, mtime |-> 2]

NoEntry == File(<<>>, <<>>, FALSE)

HasEntry(listing, name) == \E i \in 1..Len(listing) : listing[i].name = name

EntryNamed(listing, name) ==
  listing[CHOOSE i \in 1..Len(listing) : listing[i].name = name]

\* Resolution of the path segments segs below a directory listing, with the
\* errno of open(2): err is "ok" and entry the regular file, or err is the
\* error code.
RECURSIVE Resolve(_, _)
Resolve(listing, segs) ==
  IF ~ HasEntry(listing, Head(segs))
  THEN [err |-> "ENOENT", entry |-> NoEntry]
  ELSE LET e == EntryNamed(listing, Head(segs))
       IN IF Len(segs) = 1
          THEN IF e.isDir THEN [err |-> "EISDIR", entry |-> NoEntry]
               ELSE IF ~ e.readable THEN [err |-> "EACCES", entry |-> NoEntry]
               ELSE [err |-> "ok", entry |-> e]
          ELSE IF ~ e.isDir THEN [err |-> "ENOTDIR", entry |-> NoEntry]
               ELSE Resolve(e.children, Tail(segs))

\* fs.readFile(path, 'utf-8') / fs.stat(path) on the store fsv rooted at root
FsAccess(root, fsv, path) == Resolve(fsv, Split(relative(root, path)))

-----------------------------------------------------------------------------
(* NoteMetadata: keys is the set of keys the object has; a field whose key *)
(* is absent holds the filler value of its type.                           *)

NoValue == [t |-> 0, kind |-> "none"]

YamlScalar(t) == [t |-> t, kind |-> "yaml"]

\* Date.prototype.toISOString of a storage timestamp
toISOString(t) == [t |-> t, kind |-> "iso"]

Metadata(keys, title, tags, created) ==
  [keys |-> keys, title |-> title, tags |-> tags,
   created |-> created, modified |-> NoValue]

\* let metadata: NoteMetadata = { title: '' }
DefaultMetadata == Metadata({"title"}, <<>>, <<>>, NoValue)

-----------------------------------------------------------------------------
(* Front-matter blocks of the modelled documents and their yaml.load       *)

YTitleTags ==
  <<"t","i","t","l","e",":"," ","T",NL,
    "t","a","g","s",":"," ","[","t","e",","," ","a","r","]">>

YTagsOnly == <<"t","a","g","s",":"," ","[","t","e","]">>

\* a tag list that names one tag twice
YTagTwice ==
  <<"t","a","g","s",":"," ","[","t","e",","," ","t","e","]">>

YCreated ==
  <<"t","i","t","l","e",":"," ","X",NL,
    "c","r","e","a","t","e","d",":"," ","9">>

YBroken == <<"a",":"," ","[">>

\* yaml.load(text): ok is FALSE when the parser throws
YamlLoad(text) ==
  CASE text = YTitleTags ->
         [ok |-> TRUE,
          value |-> Metadata({"title", "tags"}, <<"T">>,
                             << <<"t","e">>, <<"a","r">> >>, NoValue)]
    [] text = YTagsOnly ->
         [ok |-> TRUE,
          value |-> Metadata({"tags"}, <<>>, << <<"t","e">> >>, NoValue)]
    [] text = YTagTwice ->
         [ok |-> TRUE,
          value |-> Metadata({"tags"}, <<>>, << <<"t","e">>, <<"t","e">> >>,
                             NoValue)]
    [] text = YCreated ->
         [ok |-> TRUE,
          value |-> Metadata({"title", "created"}, <<"X">>, <<>>,
                             YamlScalar(9))]
    [] text = <<>> ->
         [ok |-> TRUE, value |-> Metadata({}, <<>>, <<>>, NoValue)]
    [] OTHER -> [ok |-> FALSE, value |-> DefaultMetadata]

-----------------------------------------------------------------------------
(* VaultClient.readMarkdownFile                                            *)

FmOpen == <<"-","-","-",NL>>

FmClose == <<NL,"-","-","-",NL>>

\* content.match(/^---\n([\s\S]*?)\n---\n([\s\S]*)$/): the closing line is
\* the first one after the opening line (lazy group 1)
FmCloseAt(content) ==
  {i \in 5..(Len(content) - 4) : SubSeq(content, i, i + 4) = FmClose}

frontmatterMatch(content) ==
  IF StartsWith(content, FmOpen) /\ FmCloseAt(content) # {}
  THEN LET i == CHOOSE k \in FmCloseAt(content) :
                  \A m \in FmCloseAt(content) : k <= m
       IN [matched |-> TRUE,
           block |-> SubSeq(content, 5, i - 1),
           rest |-> SubSeq(content, i + 5, Len(content))]
  ELSE [matched |-> FALSE, block |-> <<>>, rest |-> <<>>]

\* The result for the text `content` read from `path`
readMarkdownFile(path, content) ==
  LET parse(m) ==
        LET withYaml(y) ==
              IF m.matched /\ y.ok
              THEN [content |-> Trim(m.rest), metadata |-> y.value]
              ELSE [content |-> content,
                    metadata |->
                      [DefaultMetadata EXCEPT
                         !.title = StripMd(LastSegment(path))]]
        IN withYaml(YamlLoad(m.block))
  IN parse(frontmatterMatch(content))

-----------------------------------------------------------------------------
(* VaultClient.parseInternalLinks                                          *)

\* Array.prototype.push, which keeps duplicates; for contrast with SetAdd
ArrayPush(seq, x) == Append(seq, x)

\* Set.add followed by Array.from: insertion order, no duplicates
SetAdd(seq, x) ==
  IF \E i \in 1..Len(seq) : seq[i] = x THEN seq ELSE Append(seq, x)

\* /\[\[(.*?)\]\]/ tried at position i: the end of the shortest match, or 0
WikiEndAt(s, i) ==
  IF i + 3 <= Len(s) /\ s[i] = "[" /\ s[i + 1] = "["
  THEN LET ends == {j \in (i + 2)..(Len(s) - 1) :
                      /\ s[j] = "]" /\ s[j + 1] = "]"
                      /\ \A k \in (i + 2)..(j - 1) : s[k] # NL}
       IN IF ends = {} THEN 0
          ELSE CHOOSE j \in ends : \A m \in ends : j <= m
  ELSE 0

\* match[1].split('|')[0]
BeforePipe(s) ==
  IF Includes(s, <<"|">>) THEN SubSeq(s, 1, IndexOf(s, <<"|">>)) ELSE s

RECURSIVE WikiLinks(_, _, _)
WikiLinks(s, from, links) ==
  LET starts == {i \in from..Len(s) : WikiEndAt(s, i) # 0}
  IN IF starts = {} THEN links
     ELSE LET i == CHOOSE k \in starts : \A m \in starts : k <= m
              j == WikiEndAt(s, i)
              target == BeforePipe(SubSeq(s, i + 2, j - 1))
          IN WikiLinks(s, j + 2, SetAdd(links, target))

\* /\[([^\]]+)\]\(([^)]+\.md)\)/ tried at position i: the position of the
\* closing parenthesis, or 0
MdEndAt(s, i) ==
  IF i <= Len(s) /\ s[i] = "["
  THEN LET rb == {j \in (i + 1)..Len(s) : s[j] = "]"}
       IN IF rb = {} THEN 0
          ELSE LET j == CHOOSE k \in rb : \A m \in rb : k <= m
                   rp == {p \in (j + 2)..Len(s) : s[p] = ")"}
               IN IF j = i + 1 \/ j + 1 > Len(s) \/ s[j + 1] # "(" \/ rp = {}
                  THEN 0
                  ELSE LET p == CHOOSE k \in rp : \A m \in rp : k <= m
                       IN IF /\ p - (j + 2) >= 4
                             /\ SubSeq(s, p - 3, p - 1) = MdExt
                          THEN p ELSE 0
  ELSE 0

MdTargetAt(s, i) ==
  LET j == CHOOSE k \in (i + 1)..Len(s) :
             s[k] = "]" /\ \A m \in (i + 1)..(k - 1) : s[m] # "]"
  IN StripMd(SubSeq(s, j + 2, MdEndAt(s, i) - 1))

RECURSIVE MdLinks(_, _, _)
MdLinks(s, from, links) ==
  LET starts == {i \in from..Len(s) : MdEndAt(s, i) # 0}
  IN IF starts = {} THEN links
     ELSE LET i == CHOOSE k \in starts : \A m \in starts : k <= m
          IN MdLinks(s, MdEndAt(s, i) + 1, SetAdd(links, MdTargetAt(s, i)))

parseInternalLinks(content) == MdLinks(content, 1, WikiLinks(content, 1, <<>>))

-----------------------------------------------------------------------------
(* VaultClient.getNoteByPath                                               *)

NoNote ==
  [name |-> <<>>, path |-> <<>>, content |-> <<>>,
   metadata |-> DefaultMetadata, links |-> [from |-> <<>>, to |-> <<>>]]

\* A test that also takes ENOTDIR for a missing file; for contrast with
\* isNotFound
isNoSuchFile(errno) == errno \in {"ENOENT", "ENOTDIR"}

\* (e as NodeJS.ErrnoException).code === 'ENOENT'
isNotFound(errno) == errno = "ENOENT"

\* The spread written last, { created: ..., modified: ..., ...metadata }: a
\* created or modified key of the block wins; for contrast with
\* withTimestamps
withTimestampsFirst(metadata, stats) ==
  [metadata EXCEPT
     !.keys = @ \cup {"created", "modified"},
     !.created = IF "created" \in metadata.keys THEN @
                 ELSE toISOString(stats.birthtime),
     !.modified = IF "modified" \in metadata.keys THEN @
                  ELSE toISOString(stats.mtime)]

\* { ...metadata, created: ..., modified: ... }: the keys written last win
withTimestamps(metadata, stats) ==
  [metadata EXCEPT
     !.keys = @ \cup {"created", "modified"},
     !.created = toISOString(stats.birthtime),
     !.modified = toISOString(stats.mtime)]

\* kind is "note" (a Note is returned), "null", or "throw" with the errno of
\* the storage failure; ops is the number of storage accesses made
getNoteByPath(root, fsv, notePath) ==
  LET assemble(fullPath, stats, parsed) ==
        [name |-> LastSegment(notePath), path |-> relative(root, fullPath),
         content |-> parsed.content,
         metadata |-> withTimestamps(parsed.metadata, stats),
         links |-> [from |-> <<>>, to |-> parseInternalLinks(parsed.content)]]
      load(fullPath, rd) ==
        IF rd.err = "ok"
        THEN [kind |-> "note", errno |-> "ok", ops |-> 2,
              note |-> assemble(fullPath, rd.entry,
                                readMarkdownFile(fullPath, rd.entry.raw))]
        ELSE IF isNotFound(rd.err)
        THEN [kind |-> "null", errno |-> rd.err, ops |-> 1, note |-> NoNote]
        ELSE [kind |-> "throw", errno |-> rd.err, ops |-> 1, note |-> NoNote]
      at(fullPath) == load(fullPath, FsAccess(root, fsv, fullPath))
  IN at(join(root, notePath \o MdExt))

-----------------------------------------------------------------------------
(* VaultClient.searchNotes                                                 *)

\* An exclusion that compares whole paths (folder === path), for contrast
\* with the substring test of IsExcluded
IsExcludedExact(options, path) ==
  /\ "excludeFolders" \in options.has
  /\ \E k \in 1..Len(options.excludeFolders) :
       path = options.excludeFolders[k]

\* options.excludeFolders?.some(folder => path.includes(folder))
IsExcluded(options, path) ==
  /\ "excludeFolders" \in options.has
  /\ \E k \in 1..Len(options.excludeFolders) :
       Includes(path, options.excludeFolders[k])

\* The generator walkFiles(dir) over the listing of dir, as the sequence of
\* its steps: a "dir" step is the fs.readdir of a directory it enters, a
\* "file" step is a path it yields.
RECURSIVE walkEntries(_, _, _)
walkEntries(options, dir, files) ==
  IF files = <<>> THEN <<>>
  ELSE LET file == Head(files)
           path == join(dir, file.name)
           here ==
             IF IsExcluded(options, path) THEN <<>>
             ELSE IF file.isDir
                  THEN <<[path |-> path, kind |-> "dir"]>>
                       \o walkEntries(options, path, file.children)
             ELSE IF EndsWith(file.name, MdExt)
                  THEN <<[path |-> path, kind |-> "file"]>>
                  ELSE <<>>
       IN here \o walkEntries(options, dir, Tail(files))

walkFiles(options, dir, listing) ==
  <<[path |-> dir, kind |-> "dir"]>> \o walkEntries(options, dir, listing)

Ellipsis == <<".", ".", ".">>

\* note.content.slice(start, end)
Slice(s, start, end) == SubSeq(s, start + 1, end)

Max(a, b) == IF a >= b THEN a ELSE b

Min(a, b) == IF a <= b THEN a ELSE b

ExcerptContext == 40

\* A test that compares case, note.content.includes(query); for contrast
\* with contentMatches
contentMatchesCase(note, query) == Includes(note.content, query)

contentMatches(note, query) ==
  Includes(ToLowerCase(note.content), ToLowerCase(query))

contentResult(note, query) ==
  LET index == IndexOf(ToLowerCase(note.content), ToLowerCase(query))
      start == Max(0, index - ExcerptContext)
      end == Min(Len(note.content), index + Len(query) + ExcerptContext)
  IN [note |-> note, hasExcerpt |-> TRUE,
      excerpt |-> Ellipsis \o Slice(note.content, start, end) \o Ellipsis,
      matchType |-> "content", score |-> 1]

\* A tag test that does not ask for options.includeTags, for contrast with
\* tagMatches
tagMatchesUnasked(options, note, query) ==
  /\ "tags" \in note.metadata.keys
  /\ \E k \in 1..Len(note.metadata.tags) :
       Includes(ToLowerCase(note.metadata.tags[k]), ToLowerCase(query))

tagMatches(options, note, query) ==
  /\ "includeTags" \in options.has /\ options.includeTags
  /\ "tags" \in note.metadata.keys
  /\ \E k \in 1..Len(note.metadata.tags) :
       Includes(ToLowerCase(note.metadata.tags[k]), ToLowerCase(query))

tagResult(note) ==
  [note |-> note, hasExcerpt |-> FALSE, excerpt |-> <<>>,
   matchType |-> "tag", score |-> 2]

pathMatches(note, query) ==
  Includes(ToLowerCase(note.path), ToLowerCase(query))

\* note.metadata.title.toLowerCase() is evaluated, on an undefined title
titleThrows(options, note, query) ==
  /\ "includePath" \in options.has /\ options.includePath
  /\ ~ pathMatches(note, query)
  /\ "title" \notin note.metadata.keys

titleMatches(options, note, query) ==
  /\ "includePath" \in options.has /\ options.includePath
  /\ \/ pathMatches(note, query)
     \/ /\ "title" \in note.metadata.keys
        /\ Includes(ToLowerCase(note.metadata.title), ToLowerCase(query))

titleResult(note) ==
  [note |-> note, hasExcerpt |-> FALSE, excerpt |-> <<>>,
   matchType |-> "title", score |-> 3]

\* The results one loaded note pushes, in the order of the three tests
evaluate(options, note, query) ==
  (IF contentMatches(note, query) THEN <<contentResult(note, query)>>
   ELSE <<>>)
  \o (IF tagMatches(options, note, query) THEN <<tagResult(note)>> ELSE <<>>)
  \o (IF titleMatches(options, note, query) THEN <<titleResult(note)>>
      ELSE <<>>)

\* A test that lets the loop go on at the limit, results.length > limit; for
\* contrast with limitReached
limitExceeded(options, n) ==
  /\ "limit" \in options.has
  /\ options.limit # 0
  /\ n > options.limit

\* options.limit || Infinity reached by n results
limitReached(options, n) ==
  /\ "limit" \in options.has
  /\ options.limit # 0
  /\ n >= options.limit

\* One step of the generator consumed by the for-await loop. acc.state is
\* "run", "break" or "throw".
searchStep(root, fsv, query, options, acc, step) ==
  LET loaded(relativePath, got) ==
        IF got.kind = "throw"
        THEN [acc EXCEPT !.state = "throw", !.error = got.errno,
                         !.ops = @ + got.ops]
        ELSE IF got.kind = "null"
        THEN [acc EXCEPT !.ops = @ + got.ops]
        ELSE IF titleThrows(options, got.note, query)
        THEN [acc EXCEPT !.state = "throw", !.error = "TypeError",
                         !.ops = @ + got.ops,
                         !.seen = @ \cup {relativePath}]
        ELSE [acc EXCEPT
                !.ops = @ + got.ops,
                !.seen = @ \cup {relativePath},
                !.loaded = Append(@, relativePath),
                !.results = @ \o evaluate(options, got.note, query)]
      visit(relativePath) ==
        IF relativePath \in acc.seen THEN acc
        ELSE loaded(relativePath,
                    getNoteByPath(root, fsv, StripMd(relativePath)))
  IN IF acc.state # "run" THEN acc
     ELSE IF step.kind = "dir" THEN [acc EXCEPT !.ops = @ + 1]
     ELSE IF limitReached(options, Len(acc.results))
          THEN [acc EXCEPT !.state = "break"]
     ELSE visit(relative(root, step.path))

RECURSIVE searchLoop(_, _, _, _, _, _)
searchLoop(root, fsv, query, options, acc, steps) ==
  IF steps = <<>> THEN acc
  ELSE searchLoop(root, fsv, query, options,
                  searchStep(root, fsv, query, options, acc, Head(steps)),
                  Tail(steps))

\* The ascending comparator (a, b) => a.score - b.score, for contrast with
\* compareScore
compareScoreAscending(a, b) == a.score - b.score

\* (a, b) => b.score - a.score
compareScore(a, b) == b.score - a.score

\* An insertion that puts an element before the earlier ones the comparator
\* ties it with, as a sort that is not stable may; for contrast with
\* sortInsert
RECURSIVE sortInsertBeforeTies(_, _)
sortInsertBeforeTies(sorted, r) ==
  IF sorted = <<>> THEN <<r>>
  ELSE IF compareScore(Head(sorted), r) < 0
       THEN <<Head(sorted)>> \o sortInsertBeforeTies(Tail(sorted), r)
       ELSE <<r>> \o sorted

\* results.sort(compareScore): Array.prototype.sort is stable, an element
\* stays behind every earlier one the comparator does not put after it
RECURSIVE sortInsert(_, _)
sortInsert(sorted, r) ==
  IF sorted = <<>> THEN <<r>>
  ELSE IF compareScore(Head(sorted), r) <= 0
       THEN <<Head(sorted)>> \o sortInsert(Tail(sorted), r)
       ELSE <<r>> \o sorted

RECURSIVE sortByScore(_)
sortByScore(results) ==
  IF results = <<>> THEN <<>>
  ELSE sortInsert(sortByScore(SubSeq(results, 1, Len(results) - 1)),
                  results[Len(results)])

\* const results = [], seen = new Set(): the collections of one call
searchStart ==
  [ops |-> 0, loaded |-> <<>>, state |-> "run", error |-> "none",
   seen |-> {}, results |-> <<>>]

\* What the call gives when its loop has ended: kind is "ok" with the
\* returned results, or "throw" with the error
searchFinish(acc) ==
  IF acc.state = "throw"
  THEN [kind |-> "throw", ops |-> acc.ops, loaded |-> acc.loaded,
        error |-> acc.error, results |-> <<>>]
  ELSE [kind |-> "ok", ops |-> acc.ops, loaded |-> acc.loaded,
        error |-> "none", results |-> sortByScore(acc.results)]

searchNotes(root, fsv, query, options) ==
  searchFinish(searchLoop(root, fsv, query, options, searchStart,
                          walkFiles(options, root, fsv)))

-----------------------------------------------------------------------------
(* VaultClient.getAllTags                                                  *)

\* tagCounts.set(tag, (tagCounts.get(tag) || 0) + 1) on a Map kept as the
\* sequence of its entries in insertion order
countTag(tagCounts, tag) ==
  IF \E i \in 1..Len(tagCounts) : tagCounts[i].tag = tag
  THEN [i \in 1..Len(tagCounts) |->
          IF tagCounts[i].tag = tag
          THEN [tagCounts[i] EXCEPT !.count = @ + 1]
          ELSE tagCounts[i]]
  ELSE Append(tagCounts, [tag |-> tag, count |-> 1])

RECURSIVE countTags(_, _)
countTags(tagCounts, tags) ==
  IF tags = <<>> THEN tagCounts
  ELSE countTags(countTag(tagCounts, Head(tags)), Tail(tags))

\* The files the loop of getAllTags reads: fs.readdir(this.vaultPath), the
\* names of the direct children of the vault root
tagScanNames(fsv) == [i \in 1..Len(fsv) |-> fsv[i].name]

tagStep(root, fsv, acc, path) ==
  LET loaded(got) ==
        IF got.kind = "throw"
        THEN [acc EXCEPT !.state = "throw", !.error = got.errno,
                         !.ops = @ + got.ops]
        ELSE IF got.kind = "null" \/ "tags" \notin got.note.metadata.keys
        THEN [acc EXCEPT !.ops = @ + got.ops]
        ELSE [acc EXCEPT !.ops = @ + got.ops,
                         !.tagCounts = countTags(@, got.note.metadata.tags)]
  IN IF acc.state # "run" THEN acc
     ELSE IF ~ EndsWith(path, MdExt) THEN acc
     ELSE loaded(getNoteByPath(root, fsv, StripMd(path)))

RECURSIVE tagLoop(_, _, _, _)
tagLoop(root, fsv, acc, names) ==
  IF names = <<>> THEN acc
  ELSE tagLoop(root, fsv, tagStep(root, fsv, acc, Head(names)), Tail(names))

\* .sort((a, b) => b.count - a.count), stable
RECURSIVE countInsert(_, _)
countInsert(sorted, r) ==
  IF sorted = <<>> THEN <<r>>
  ELSE IF Head(sorted).count >= r.count
       THEN <<Head(sorted)>> \o countInsert(Tail(sorted), r)
       ELSE <<r>> \o sorted

RECURSIVE sortByCount(_)
sortByCount(tagCounts) ==
  IF tagCounts = <<>> THEN <<>>
  ELSE countInsert(sortByCount(SubSeq(tagCounts, 1, Len(tagCounts) - 1)),
                   tagCounts[Len(tagCounts)])

\* const tagCounts = new Map(), after fs.readdir(this.vaultPath)
tagStart ==
  [ops |-> 1, state |-> "run", error |-> "none", tagCounts |-> <<>>]

tagFinish(acc) ==
  IF acc.state = "throw"
  THEN [kind |-> "throw", tags |-> <<>>, ops |-> acc.ops,
        error |-> acc.error]
  ELSE [kind |-> "ok", tags |-> sortByCount(acc.tagCounts),
        ops |-> acc.ops, error |-> "none"]

getAllTags(root, fsv) ==
  tagFinish(tagLoop(root, fsv, tagStart, tagScanNames(fsv)))

-----------------------------------------------------------------------------
(* Errors. The message of an McpError is the text given to its constructor *)
(* prefixed by its code; messages are sequences of text pieces.            *)

InvalidParams == "InvalidParams"

MethodNotFound == "MethodNotFound"

InternalError == "InternalError"

McpError(code, message) ==
  [code |-> code, message |-> <<"MCP error ", code, ": ">> \o message]

\* An Error that is not an McpError (TypeError, errno of the file store,
\* error of a remote API client)
PlainError(message) == [code |-> "none", message |-> message]

\* catch (error) { throw new McpError(ErrorCode.InternalError, error.message) }
wrapError(error) == McpError(InternalError, error.message)

NoError == [code |-> "none", message |-> <<>>]

\* Arguments of a tool call: kind is "object", "undefined" or "string" (a
\* value that is not an object); has is the set of keys of the object.
ToolArgs(kind, has) ==
  [path |-> <<>>, kind |-> kind, has |-> has, excludeFolders |-> <<>>,
   query |-> <<>>, includeTags |-> FALSE, includePath |-> FALSE, limit |-> 0,
   minCount |-> 0, pageIdsIsArray |-> TRUE, pageIds |-> 0]

\* validateArgs(args, required): the error it throws, or NoError
validateArgs(args, required) ==
  IF args.kind # "object"
  THEN McpError(InvalidParams, <<"Arguments must be an object">>)
  ELSE IF \E i \in 1..Len(required) : required[i] \notin args.has
  THEN LET i == CHOOSE k \in 1..Len(required) :
                  /\ required[k] \notin args.has
                  /\ \A m \in 1..(k - 1) : required[m] \in args.has
       IN McpError(InvalidParams,
                   <<"Missing required argument: ", required[i]>>)
  ELSE NoError

-----------------------------------------------------------------------------
(* ObsidianServer.handleToolCall: the outcome the caller observes.         *)
(* JSON.stringify of the payload is kept as the payload itself: results,   *)
(* note and tags are plain data of strings, numbers, arrays and objects.   *)

Outcome(status, error, ops) ==
  [tags |-> <<>>, ops |-> ops, note |-> NoNote, results |-> <<>>,
   code |-> error.code, message |-> error.message, status |-> status]

Rejected(error, ops) == Outcome("error", wrapError(error), ops)

searchOptions(args) ==
  [has |-> args.has \ {"query"}, excludeFolders |-> args.excludeFolders,
   includeTags |-> args.includeTags, includePath |-> args.includePath,
   limit |-> args.limit]

\* searchNotes options without a key
NoOptions ==
  [has |-> {}, excludeFolders |-> <<>>, includeTags |-> FALSE,
   includePath |-> FALSE, limit |-> 0]

storageError(errno) == PlainError(<<errno, ": storage failure">>)

typeError == PlainError(<<"TypeError: Cannot read properties of undefined">>)

handleSearchNotes(root, fsv, args) ==
  LET found(r) ==
        IF r.kind = "throw"
        THEN Rejected(IF r.error = "TypeError" THEN typeError
                      ELSE storageError(r.error), r.ops)
        ELSE [Outcome("ok", NoError, r.ops) EXCEPT !.results = r.results]
      validated(invalid) ==
        IF invalid # NoError THEN Rejected(invalid, 0)
        ELSE found(searchNotes(root, fsv, args.query, searchOptions(args)))
  IN validated(validateArgs(args, <<"query">>))

handleGetNote(root, fsv, args) ==
  LET found(got) ==
        IF got.kind = "throw"
        THEN Rejected(storageError(got.errno), got.ops)
        ELSE IF got.kind = "null"
        THEN Rejected(McpError(InvalidParams,
                               <<"Note not found: ">> \o args.path),
                      got.ops)
        ELSE [Outcome("ok", NoError, got.ops) EXCEPT !.note = got.note]
      validated(invalid) ==
        IF invalid # NoError THEN Rejected(invalid, 0)
        ELSE found(getNoteByPath(root, fsv, args.path))
  IN validated(validateArgs(args, <<"path">>))

\* tags.filter(t => t.count >= minCount)
RECURSIVE filterTags(_, _)
filterTags(tags, minCount) ==
  IF tags = <<>> THEN <<>>
  ELSE (IF Head(tags).count >= minCount THEN <<Head(tags)>> ELSE <<>>)
       \o filterTags(Tail(tags), minCount)

handleListTags(root, fsv, args) ==
  LET minCount == IF args.kind = "object" /\ "minCount" \in args.has
                  THEN args.minCount ELSE 0
      listed(r) ==
        IF r.kind = "throw" THEN Rejected(storageError(r.error), r.ops)
        \* const { minCount = 0 } = args: destructuring undefined throws
        ELSE IF args.kind = "undefined" THEN Rejected(typeError, r.ops)
        ELSE [Outcome("ok", NoError, r.ops) EXCEPT
                !.tags = filterTags(r.tags, minCount)]
  IN listed(getAllTags(root, fsv))

handleToolCall(root, fsv, name, args) ==
  CASE name = "search_notes" -> handleSearchNotes(root, fsv, args)
    [] name = "get_note" -> handleGetNote(root, fsv, args)
    [] name = "list_tags" -> handleListTags(root, fsv, args)
    [] OTHER ->
         Rejected(McpError(MethodNotFound, <<"Unknown tool: ", name>>), 0)

-----------------------------------------------------------------------------
(* The CallTool handler of JiraConfluenceServer. remoteOk is the outcome   *)
(* of the remote API for the call; ops counts the requests issued.         *)

MAX_BULK_PAGES == 10

JiraConfluenceTools ==
  {"jira_search_issues", "jira_create_issue", "confluence_search_pages",
   "confluence_get_page_content", "confluence_bulk_get_pages",
   "confluence_create_page"}

requiredArgs(name) ==
  CASE name = "jira_search_issues" -> <<"jql">>
    [] name = "jira_create_issue" -> <<"projectKey", "issueType", "summary">>
    [] name = "confluence_search_pages" -> <<"query">>
    [] name = "confluence_get_page_content" -> <<"pageId">>
    [] name = "confluence_bulk_get_pages" -> <<"pageIds">>
    [] name = "confluence_create_page" -> <<"spaceKey", "title", "content">>
    [] OTHER -> <<>>

apiError == PlainError(<<"API Error">>)

\* The checks a case makes after validateArgs, before it calls the client
jcArgumentError(name, args) ==
  IF name = "confluence_search_pages" /\ Trim(args.query) = <<>>
  THEN McpError(InvalidParams, <<"Search query cannot be empty">>)
  ELSE IF name = "confluence_bulk_get_pages" /\ ~ args.pageIdsIsArray
  THEN McpError(InvalidParams, <<"pageIds must be an array">>)
  ELSE IF name = "confluence_bulk_get_pages" /\ args.pageIds > MAX_BULK_PAGES
  THEN McpError(InvalidParams, <<"Cannot fetch more than 10 pages at once">>)
  ELSE NoError

\* Requests the client issues for a validated call
jcRequests(name, args) ==
  IF name = "confluence_bulk_get_pages" THEN args.pageIds ELSE 1

handleJiraConfluenceCall(name, args, remoteOk) ==
  LET checked(invalid) ==
        IF invalid # NoError THEN Rejected(invalid, 0)
        ELSE IF name # "confluence_bulk_get_pages" /\ ~ remoteOk
        THEN Rejected(apiError, jcRequests(name, args))
        ELSE Outcome("ok", NoError, jcRequests(name, args))
      validated(invalid) ==
        IF invalid # NoError THEN Rejected(invalid, 0)
        ELSE checked(jcArgumentError(name, args))
  IN IF name \notin JiraConfluenceTools
     THEN Rejected(McpError(MethodNotFound, <<"Unknown tool: ", name>>), 0)
     ELSE validated(validateArgs(args, requiredArgs(name)))

-----------------------------------------------------------------------------
(* The documents and vaults of the model                                   *)

FrontMatter(block) == FmOpen \o block \o FmClose

BodyLink == <<"T","e"," ","[","[","b","]","]">>

\* title and tags in the front matter, body between blank lines
DocFull == FrontMatter(YTitleTags) \o <<NL>> \o BodyLink \o <<NL>>

\* no front matter
DocPlain == BodyLink

\* well-formed front matter without a title key
DocNoTitle == FrontMatter(YTagsOnly) \o <<"e","x">>

\* front matter whose tag list names one tag twice
DocTagTwice == FrontMatter(YTagTwice) \o <<"e","x">>

\* front matter that fails to parse
DocBroken == FrontMatter(YBroken) \o <<"e","x">>

\* front matter that defines `created`
DocCreated == FrontMatter(YCreated) \o <<" ","e","x",NL>>

\* no front matter, whitespace around the body
DocSpaces == <<" ","e","x",NL>>

Docs == {DocFull, DocPlain, DocNoTitle, DocBroken, DocCreated, DocSpaces}

SubDocs == {DocFull, DocNoTitle, DocSpaces}

NameA == <<"a",".","m","d">>

NameB == <<"b",".","m","d">>

NameC == <<"c",".","m","d">>

NameS == <<"s">>

NameD == <<"d",".","m","d">>

NameTxt == <<"n",".","t","x","t">>

SubDir(c) == Dir(NameS, <<File(NameC, c, TRUE)>>)

\* The directory listings of the vault root: every document as a.md beside
\* a subfolder, every subfolder document listed before a top-level one, a
\* vault with a tag on top-level and subfolder notes and a file that is not
\* a note, a vault with an unreadable note and a folder named like a note,
\* and a vault with a tag on two top-level notes.
Vaults ==
  { <<File(NameA, a, TRUE), SubDir(DocNoTitle)>> : a \in Docs }
  \cup { <<SubDir(c), File(NameA, DocFull, TRUE)>> : c \in SubDocs }
  \cup { <<File(NameA, DocFull, TRUE), File(NameB, DocPlain, TRUE),
           SubDir(DocFull), File(NameTxt, DocPlain, TRUE)>>,
         <<File(NameA, DocFull, TRUE), File(NameB, DocPlain, FALSE),
           Dir(NameD, <<>>)>>,
         <<File(NameA, DocFull, TRUE), File(NameB, DocNoTitle, TRUE)>> }

VaultPaths == { <<"/","v">>, <<"/","s">> }

-----------------------------------------------------------------------------
(* The tool calls of the model                                             *)

Queries ==
  { <<"t","e">>, <<"[">>, <<"t">>, <<"s">> }

ExcludeLists ==
  { <<>>, << <<"s">> >>, << <<"a">> >>, << <<"s","/","c">> >> }

\* An optional argument: <<present, value>>
OptBool == { <<FALSE, FALSE>>, <<TRUE, FALSE>>, <<TRUE, TRUE>> }

OptExclude == { <<FALSE, <<>> >> } \cup { <<TRUE, x>> : x \in ExcludeLists }

OptLimit == { <<FALSE, 0>> } \cup { <<TRUE, l>> : l \in (-1)..MaxLimit }

Present(key, opt) == IF opt[1] THEN {key} ELSE {}

SearchArgs(query, includeTags, includePath, excludeFolders, limit) ==
  [ToolArgs("object",
            {"query"} \cup Present("includeTags", includeTags)
              \cup Present("includePath", includePath)
              \cup Present("excludeFolders", excludeFolders)
              \cup Present("limit", limit))
   EXCEPT !.query = query, !.includeTags = includeTags[2],
          !.includePath = includePath[2],
          !.excludeFolders = excludeFolders[2], !.limit = limit[2]]

\* Arguments that are not an object, and an object without any key
MalformedArgs ==
  { ToolArgs("undefined", {}), ToolArgs("string", {}), ToolArgs("object", {}) }

\* Notes of the vault, a folder, a name nothing has, a path that runs
\* through the regular file a.md, and the folder d.md
NotePaths ==
  { <<"a">>, <<"b">>, <<"s","/","c">>, <<"s">>, <<"z">>,
    <<"a",".","m","d","/","x">>, <<"d">> }

MinCounts == 0..2

ToolNames == {"search_notes", "get_note", "list_tags"}

UnknownNames == {"invalid_tool", ""}

BulkSizes == {0, 1, MAX_BULK_PAGES, MAX_BULK_PAGES + 1}

NoRequest == [name |-> "", args |-> ToolArgs("undefined", {}),
              server |-> "none"]

Idle == Outcome("idle", NoError, 0)

-----------------------------------------------------------------------------
(* Calls in progress, for the specifications that follow a call from one   *)
(* await to the next                                                       *)

Callers == {1, 2}

\* An invocation of a VaultClient method: kind is "none", "search", "tags"
\* or "note"; acc holds the collections of the call; steps are the awaits
\* the call has still to make.
Invocation(kind, path, query, options, acc, steps) ==
  [path |-> path, kind |-> kind, options |-> options, query |-> query,
   acc |-> acc, steps |-> steps]

NoInvocation == Invocation("none", <<>>, <<>>, NoOptions, searchStart, <<>>)

\* getNoteByPath has not settled yet
notePending == [kind |-> "pending", errno |-> "ok", ops |-> 0, note |-> NoNote]

\* A call of the Confluence client: kind is "none", "tool" (the tool
\* confluence_bulk_get_pages), "bulk" (ConfluenceClient.bulkGetPages) or
\* "page" (ConfluenceClient.getPageContent); state is "idle", "waiting",
\* "returned" or "rejected"; issued counts the requests sent, inFlight the
\* requests sent and not yet answered, errorCount the requests that failed.
ClientCall(kind, state, isArray, n, issued, inFlight, errorCount) ==
  [kind |-> kind, state |-> state, pageIdsIsArray |-> isArray, pageIds |-> n,
   issued |-> issued, inFlight |-> inFlight, errorCount |-> errorCount]

NoClientCall == ClientCall("none", "idle", TRUE, 0, 0, 0, 0)

\* The fields of an ObsidianServer and the calls of start() and close() in
\* progress: transport is TRUE when this.transport is defined; connects and
\* serverCloses count the calls of this.server.connect and
\* this.server.close; sigintHandlers counts the listeners start() has
\* registered; calls gives for each caller where its call stands: "idle",
\* "connecting" (start awaits connect) or "closing" (close awaits
\* server.close).
LifecycleCallers == {1, 2, 3}

NotStarted ==
  [transport |-> FALSE, connects |-> 0, serverCloses |-> 0,
   sigintHandlers |-> 0, calls |-> [i \in LifecycleCallers |-> "idle"]]

-----------------------------------------------------------------------------
(* State machine                                                           *)

Init ==
  /\ vaultPath \in VaultPaths
  /\ vault \in Vaults
  /\ request = NoRequest
  /\ response = Idle
  /\ storageOps = 0
  /\ remoteCalls = 0
  /\ invocations = [i \in Callers |-> NoInvocation]
  /\ client = NoClientCall
  /\ lifecycle = NotStarted

\* A call of ObsidianServer.handleToolCall(name, args), run to completion
ObsidianCall(name, args) ==
  /\ request = NoRequest
  /\ request' = [name |-> name, args |-> args, server |-> "obsidian"]
  /\ response' = handleToolCall(vaultPath, vault, name, args)
  /\ storageOps' = response'.ops
  /\ remoteCalls' = 0
  /\ UNCHANGED <<vaultPath, vault, invocations, client, lifecycle>>

SearchNotesCall ==
  \/ \E q \in Queries, it \in OptBool, ip \in OptBool,
        ex \in OptExclude, l \in OptLimit :
       ObsidianCall("search_notes", SearchArgs(q, it, ip, ex, l))
  \/ \E args \in MalformedArgs : ObsidianCall("search_notes", args)

GetNoteCall ==
  \/ \E p \in NotePaths :
       ObsidianCall("get_note",
                    [ToolArgs("object", {"path"}) EXCEPT !.path = p])
  \/ \E args \in MalformedArgs : ObsidianCall("get_note", args)

ListTagsCall ==
  \/ \E m \in MinCounts :
       ObsidianCall("list_tags",
                    [ToolArgs("object", {"minCount"}) EXCEPT !.minCount = m])
  \/ \E args \in MalformedArgs : ObsidianCall("list_tags", args)

UnknownToolCall ==
  \E name \in UnknownNames, args \in MalformedArgs :
    ObsidianCall(name, args)

\* A CallTool request handled by JiraConfluenceServer, run to completion
JiraConfluenceCall ==
  \E name \in JiraConfluenceTools \cup UnknownNames,
     kind \in {"object", "undefined"},
     q \in { <<>>, <<" ">>, <<"t","e">> },
     isArray \in BOOLEAN, n \in BulkSizes, remoteOk \in BOOLEAN :
    \E has \in SUBSET {requiredArgs(name)[i] :
                         i \in 1..Len(requiredArgs(name))} :
      /\ request = NoRequest
      /\ kind = "undefined" => has = {}
      /\ name # "confluence_search_pages" => q = <<"t","e">>
      /\ name # "confluence_bulk_get_pages" => (isArray /\ n = 1)
      /\ request' = [name |-> name,
                     args |-> [ToolArgs(kind, has) EXCEPT
                                 !.query = q, !.pageIdsIsArray = isArray,
                                 !.pageIds = n],
                     server |-> "jira-confluence"]
      /\ response' = handleJiraConfluenceCall(name, request'.args, remoteOk)
      /\ remoteCalls' = response'.ops
      /\ storageOps' = 0
      /\ UNCHANGED <<vaultPath, vault, invocations, client, lifecycle>>

\* The outcome has been returned to the caller; the server takes the next
\* request
Return ==
  /\ request # NoRequest
  /\ request' = NoRequest
  /\ response' = Idle
  /\ storageOps' = 0
  /\ remoteCalls' = 0
  /\ UNCHANGED <<vaultPath, vault, invocations, client, lifecycle>>

Next ==
  \/ SearchNotesCall
  \/ GetNoteCall
  \/ ListTagsCall
  \/ UnknownToolCall
  \/ JiraConfluenceCall
  \/ Return

Spec == Init /\ [][Next]_vars

-----------------------------------------------------------------------------
(* Link extraction on its own: get_note on a vault whose only note a.md is *)
(* a body put together from link texts and plain text.                     *)

WikiA == <<"[","[","A","]","]">>

WikiAliasA == <<"[","[","A","|","B","]","]">>

WikiXY == <<"[","[","x","/","y","]","]">>

MdXY == <<"[","L","]","(","x","/","y",".","m","d",")">>

\* a Markdown link whose target does not end in .md
MdOther == <<"[","L","]","(","x","/","y",")">>

PlainText == <<"t"," ">>

\* The link texts with the target each one names
LinkTexts ==
  { <<WikiA, <<"A">> >>, <<WikiAliasA, <<"A">> >>,
    <<WikiXY, <<"x","/","y">> >>, <<MdXY, <<"x","/","y">> >> }

Pieces == {lt[1] : lt \in LinkTexts} \cup {MdOther, PlainText}

RECURSIVE Bodies(_)
Bodies(n) ==
  IF n = 0 THEN { <<>> }
  ELSE Bodies(n - 1) \cup {b \o p : b \in Bodies(n - 1), p \in Pieces}

LinkVaults == { <<File(NameA, b, TRUE)>> : b \in Bodies(MaxPieces) \ { <<>> } }

LinkInit ==
  /\ vaultPath = <<"/","v">>
  /\ vault \in LinkVaults
  /\ request = NoRequest
  /\ response = Idle
  /\ storageOps = 0
  /\ remoteCalls = 0
  /\ invocations = [i \in Callers |-> NoInvocation]
  /\ client = NoClientCall
  /\ lifecycle = NotStarted

GetLinkedNote ==
  ObsidianCall("get_note",
               [ToolArgs("object", {"path"}) EXCEPT !.path = <<"a">>])

LinkNext == GetLinkedNote \/ Return

LinkSpec == LinkInit /\ [][LinkNext]_vars

-----------------------------------------------------------------------------
(* Two invocations on one VaultClient, each followed from one await to the *)
(* next: a step of an invocation is one fs.readdir of the walk or the load *)
(* of one document; the steps of the two interleave in every order. The    *)
(* vault does not change.                                                  *)

AwaitVaults ==
  { <<File(NameA, DocFull, TRUE), SubDir(DocNoTitle)>>,
    <<File(NameA, DocFull, TRUE), File(NameB, DocNoTitle, TRUE)>>,
    <<File(NameA, DocFull, TRUE), File(NameB, DocPlain, FALSE),
      Dir(NameD, <<>>)>> }

AwaitQueries == { <<"t">>, <<"t","e">> }

AwaitLimits == { <<FALSE, 0>>, <<TRUE, 0>>, <<TRUE, 1>> }

AwaitInit ==
  /\ vaultPath = <<"/","v">>
  /\ vault \in AwaitVaults
  /\ request = NoRequest
  /\ response = Idle
  /\ storageOps = 0
  /\ remoteCalls = 0
  /\ invocations = [i \in Callers |-> NoInvocation]
  /\ client = NoClientCall
  /\ lifecycle = NotStarted

\* The collections an invocation works on, were seen a field of the
\* VaultClient that all invocations share; for contrast with callAccumulator
sharedAccumulator(invs, i) ==
  [invs[i].acc EXCEPT
     !.seen = UNION {invs[j].acc.seen :
                       j \in {k \in DOMAIN invs : invs[k].kind = "search"}}]

\* The collections an invocation works on: results and seen are constants
\* of the body of searchNotes, created by each call
callAccumulator(invs, i) == invs[i].acc

StartSearch(i) ==
  \E q \in AwaitQueries, it \in {<<FALSE, FALSE>>, <<TRUE, TRUE>>},
     l \in AwaitLimits :
    LET started(options) ==
          Invocation("search", <<>>, q, options, searchStart,
                     walkFiles(options, vaultPath, vault))
    IN /\ invocations[i].kind = "none"
       /\ invocations' =
            [invocations EXCEPT
               ![i] = started(searchOptions(
                        SearchArgs(q, it, <<FALSE, FALSE>>,
                                   <<FALSE, <<>> >>, l)))]
       /\ UNCHANGED <<vaultPath, vault, request, response, storageOps,
                      remoteCalls, client, lifecycle>>

StartTags(i) ==
  /\ invocations[i].kind = "none"
  /\ invocations' =
       [invocations EXCEPT
          ![i] = Invocation("tags", <<>>, <<>>, NoOptions, tagStart,
                            tagScanNames(vault))]
  /\ UNCHANGED <<vaultPath, vault, request, response, storageOps,
                 remoteCalls, client, lifecycle>>

StartNote(i) ==
  \E p \in { <<"a">>, <<"z">> } :
    /\ invocations[i].kind = "none"
    /\ invocations' =
         [invocations EXCEPT
            ![i] = Invocation("note", p, <<>>, NoOptions, notePending,
                              <<p>>)]
    /\ UNCHANGED <<vaultPath, vault, request, response, storageOps,
                   remoteCalls, client, lifecycle>>

\* The loop of searchNotes takes the next path of the walk
AwaitSearch(i) ==
  LET inv == invocations[i]
      after(acc) ==
        [inv EXCEPT !.acc = acc,
                    !.steps = IF acc.state = "run" THEN Tail(inv.steps)
                              ELSE <<>>]
  IN /\ inv.kind = "search" /\ inv.steps # <<>>
     /\ invocations' =
          [invocations EXCEPT
             ![i] = after(searchStep(vaultPath, vault, inv.query,
                                     inv.options,
                                     callAccumulator(invocations, i),
                                     Head(inv.steps)))]
     /\ UNCHANGED <<vaultPath, vault, request, response, storageOps,
                    remoteCalls, client, lifecycle>>

\* The loop of getAllTags takes the next name of the listing
AwaitTags(i) ==
  LET inv == invocations[i]
      after(acc) ==
        [inv EXCEPT !.acc = acc,
                    !.steps = IF acc.state = "run" THEN Tail(inv.steps)
                              ELSE <<>>]
  IN /\ inv.kind = "tags" /\ inv.steps # <<>>
     /\ invocations' =
          [invocations EXCEPT
             ![i] = after(tagStep(vaultPath, vault, inv.acc,
                                  Head(inv.steps)))]
     /\ UNCHANGED <<vaultPath, vault, request, response, storageOps,
                    remoteCalls, client, lifecycle>>

\* getNoteByPath settles
AwaitNote(i) ==
  LET inv == invocations[i]
  IN /\ inv.kind = "note" /\ inv.steps # <<>>
     /\ invocations' =
          [invocations EXCEPT
             ![i] = [inv EXCEPT
                       !.acc = getNoteByPath(vaultPath, vault, inv.path),
                       !.steps = <<>>]]
     /\ UNCHANGED <<vaultPath, vault, request, response, storageOps,
                    remoteCalls, client, lifecycle>>

AwaitNext ==
  \E i \in Callers :
    \/ StartSearch(i)
    \/ StartTags(i)
    \/ StartNote(i)
    \/ AwaitSearch(i)
    \/ AwaitTags(i)
    \/ AwaitNote(i)

InterleavedSpec == AwaitInit /\ [][AwaitNext]_vars

-----------------------------------------------------------------------------
(* The Confluence client, followed from the requests it sends to their     *)
(* answers: the tool confluence_bulk_get_pages, a direct call of           *)
(* ConfluenceClient.bulkGetPages, and ConfluenceClient.getPageContent.     *)

ClientBulkSizes == {0, 1, 2, MAX_BULK_PAGES, MAX_BULK_PAGES + 1}

\* A bound one above the one of the client; for contrast with tooManyPages
tooManyPagesAbove(n) == n > MAX_BULK_PAGES + 1

\* pageIds.length > MAX_BULK_PAGES
tooManyPages(n) == n > MAX_BULK_PAGES

\* ConfluenceClient.bulkGetPages up to its await: it throws, or
\* pageIds.map has called getPageContent for every id, each call having
\* sent its request, and Promise.allSettled waits for all of them. A value
\* that is not an array has no map method.
bulkGetPages(kind, isArray, n) ==
  IF tooManyPages(n) \/ ~ isArray
  THEN ClientCall(kind, "rejected", isArray, n, 0, 0, 0)
  ELSE ClientCall(kind, "waiting", isArray, n, n, n, 0)

ClientInit ==
  /\ vaultPath = <<"/","v">>
  /\ vault = <<>>
  /\ request = NoRequest
  /\ response = Idle
  /\ storageOps = 0
  /\ remoteCalls = 0
  /\ invocations = [i \in Callers |-> NoInvocation]
  /\ client = NoClientCall
  /\ lifecycle = NotStarted

\* case 'confluence_bulk_get_pages' of the CallTool handler
BulkGetPagesTool ==
  \E isArray \in BOOLEAN, n \in ClientBulkSizes, has \in SUBSET {"pageIds"} :
    LET name == "confluence_bulk_get_pages"
        args == [ToolArgs("object", has) EXCEPT
                   !.pageIdsIsArray = isArray, !.pageIds = n]
    IN /\ client.state = "idle"
       /\ client' =
            IF \/ validateArgs(args, requiredArgs(name)) # NoError
               \/ jcArgumentError(name, args) # NoError
            THEN ClientCall("tool", "rejected", isArray, n, 0, 0, 0)
            ELSE bulkGetPages("tool", isArray, n)
       /\ UNCHANGED <<vaultPath, vault, request, response, storageOps,
                      remoteCalls, invocations, lifecycle>>

\* ConfluenceClient.bulkGetPages called by other code
BulkGetPagesClient ==
  \E isArray \in BOOLEAN, n \in ClientBulkSizes :
    /\ client.state = "idle"
    /\ client' = bulkGetPages("bulk", isArray, n)
    /\ UNCHANGED <<vaultPath, vault, request, response, storageOps,
                   remoteCalls, invocations, lifecycle>>

\* ConfluenceClient.getPageContent: this.client.get is called and awaited
GetPageContent ==
  /\ client.state = "idle"
  /\ client' = ClientCall("page", "waiting", TRUE, 1, 1, 1, 0)
  /\ UNCHANGED <<vaultPath, vault, request, response, storageOps,
                 remoteCalls, invocations, lifecycle>>

\* The remote API answers one of the requests, with the page or an error
SettleRequest ==
  \E ok \in BOOLEAN :
    /\ client.state = "waiting" /\ client.inFlight > 0
    /\ client' = [client EXCEPT
                    !.inFlight = @ - 1,
                    !.errorCount = IF ok THEN @ ELSE @ + 1]
    /\ UNCHANGED <<vaultPath, vault, request, response, storageOps,
                   remoteCalls, invocations, lifecycle>>

\* All requests are answered: bulkGetPages returns the pages with their
\* errors, getPageContent returns the page or throws the error
ClientReturn ==
  /\ client.state = "waiting" /\ client.inFlight = 0
  /\ client' = [client EXCEPT
                  !.state = IF client.kind = "page" /\ client.errorCount > 0
                            THEN "rejected" ELSE "returned"]
  /\ UNCHANGED <<vaultPath, vault, request, response, storageOps,
                 remoteCalls, invocations, lifecycle>>

\* The caller has the outcome; the client takes the next call
ClientDone ==
  /\ client.state \in {"returned", "rejected"}
  /\ client' = NoClientCall
  /\ UNCHANGED <<vaultPath, vault, request, response, storageOps,
                 remoteCalls, invocations, lifecycle>>

ClientNext ==
  \/ BulkGetPagesTool
  \/ BulkGetPagesClient
  \/ GetPageContent
  \/ SettleRequest
  \/ ClientReturn
  \/ ClientDone

ClientSpec == ClientInit /\ [][ClientNext]_vars

-----------------------------------------------------------------------------
(* ConfluenceClient.searchPagesOptimized, called page after page by a      *)
(* caller that follows nextPageStart. The remote wiki has `matching` pages *)
(* for the query, numbered from 0, and returns at most serverLimit items   *)
(* for one request, whatever limit the request asks for.                   *)

ServerLimits == {1, 2, 3}

RequestLimits == {1, 2, 3}

\* The answer of GET content/search for start and limit: the items, the
\* limit the remote applied, and whether _links has a next link
remoteSearch(matching, serverLimit, start, limit) ==
  LET applied == Min(limit, serverLimit)
      size == Max(0, Min(matching, start + applied) - start)
  IN [limit |-> applied,
      results |-> [i \in 1..size |-> start + i - 1],
      next |-> start + applied < matching]

\* The PaginatedSearchResponse; keys holds nextPageStart when it is defined
searchPagesOptimized(matching, serverLimit, start, limit) ==
  LET paged(searchResult) ==
        [keys |-> IF searchResult.next THEN {"nextPageStart"} ELSE {},
         limit |-> searchResult.limit,
         results |-> searchResult.results,
         totalSize |-> Len(searchResult.results),
         hasNext |-> searchResult.next,
         nextPageStart |-> IF searchResult.next THEN start + limit ELSE 0]
  IN paged(remoteSearch(matching, serverLimit, start, limit))

\* The caller between two pages: the limit it asks for, the pages received
\* so far, and the metadata of the last response
Paging(state, matching, serverLimit, limit, results, page) ==
  [kind |-> "search", keys |-> page.keys, limit |-> limit, state |-> state,
   results |-> results \o page.results, matching |-> matching,
   serverLimit |-> serverLimit, hasNext |-> page.hasNext,
   nextPageStart |-> page.nextPageStart]

PageInit ==
  /\ vaultPath = <<"/","v">>
  /\ vault = <<>>
  /\ request = NoRequest
  /\ response = Idle
  /\ storageOps = 0
  /\ remoteCalls = 0
  /\ invocations = [i \in Callers |-> NoInvocation]
  /\ client = NoClientCall
  /\ lifecycle = NotStarted

\* searchPagesOptimized(query, spaceKey, 0, limit)
SearchFirstPage ==
  \E matching \in 0..MaxTotal, serverLimit \in ServerLimits,
     limit \in RequestLimits :
    /\ client.kind = "none"
    /\ client' = Paging("paging", matching, serverLimit, limit, <<>>,
                        searchPagesOptimized(matching, serverLimit, 0, limit))
    /\ UNCHANGED <<vaultPath, vault, request, response, storageOps,
                   remoteCalls, invocations, lifecycle>>

\* searchPagesOptimized(query, spaceKey, nextPageStart, limit)
SearchNextPage ==
  /\ client.kind = "search" /\ client.state = "paging" /\ client.hasNext
  /\ client' = Paging("paging", client.matching, client.serverLimit,
                      client.limit, client.results,
                      searchPagesOptimized(client.matching,
                                           client.serverLimit,
                                           client.nextPageStart,
                                           client.limit))
  /\ UNCHANGED <<vaultPath, vault, request, response, storageOps,
                 remoteCalls, invocations, lifecycle>>

\* hasNext is false: the caller stops
SearchEnds ==
  /\ client.kind = "search" /\ client.state = "paging" /\ ~ client.hasNext
  /\ client' = [client EXCEPT !.state = "done"]
  /\ UNCHANGED <<vaultPath, vault, request, response, storageOps,
                 remoteCalls, invocations, lifecycle>>

PageNext == SearchFirstPage \/ SearchNextPage \/ SearchEnds

PageSpec == PageInit /\ [][PageNext]_vars

-----------------------------------------------------------------------------
(* ObsidianServer.start and ObsidianServer.close, each followed from its   *)
(* call to its await and from there to its return. Calls of different      *)
(* callers interleave at the awaits; a SIGINT runs the listener that       *)
(* start() registered, which calls close().                                *)

LifecycleInit ==
  /\ vaultPath = <<"/","v">>
  /\ vault = <<>>
  /\ request = NoRequest
  /\ response = Idle
  /\ storageOps = 0
  /\ remoteCalls = 0
  /\ invocations = [i \in Callers |-> NoInvocation]
  /\ client = NoClientCall
  /\ lifecycle = NotStarted

\* close() up to its await: with a transport, this.server.close() is called
\* and awaited; without one, close() returns
close(server, i) ==
  IF server.transport
  THEN [server EXCEPT !.serverCloses = @ + 1, !.calls[i] = "closing"]
  ELSE server

\* start() up to its await: the transport is set, this.server.connect is
\* called and awaited
StartCall(i) ==
  /\ lifecycle.calls[i] = "idle"
  /\ lifecycle.connects < MaxStarts
  /\ lifecycle' = [lifecycle EXCEPT !.transport = TRUE, !.connects = @ + 1,
                                    !.calls[i] = "connecting"]
  /\ UNCHANGED <<vaultPath, vault, request, response, storageOps,
                 remoteCalls, invocations, client>>

\* connect has settled: start() registers the SIGINT listener and returns
StartReturn(i) ==
  /\ lifecycle.calls[i] = "connecting"
  /\ lifecycle' = [lifecycle EXCEPT !.sigintHandlers = @ + 1,
                                    !.calls[i] = "idle"]
  /\ UNCHANGED <<vaultPath, vault, request, response, storageOps,
                 remoteCalls, invocations, client>>

\* close() called by other code
CloseCall(i) ==
  /\ lifecycle.calls[i] = "idle"
  /\ lifecycle' = close(lifecycle, i)
  /\ UNCHANGED <<vaultPath, vault, request, response, storageOps,
                 remoteCalls, invocations, client>>

\* SIGINT: the listener () => this.close() runs
SigintClose(i) ==
  /\ lifecycle.sigintHandlers > 0
  /\ lifecycle.calls[i] = "idle"
  /\ lifecycle' = close(lifecycle, i)
  /\ UNCHANGED <<vaultPath, vault, request, response, storageOps,
                 remoteCalls, invocations, client>>

\* server.close() has settled: this.transport = undefined, close() returns
CloseReturn(i) ==
  /\ lifecycle.calls[i] = "closing"
  /\ lifecycle' = [lifecycle EXCEPT !.transport = FALSE, !.calls[i] = "idle"]
  /\ UNCHANGED <<vaultPath, vault, request, response, storageOps,
                 remoteCalls, invocations, client>>

LifecycleNext ==
  \E i \in LifecycleCallers :
    \/ StartCall(i)
    \/ StartReturn(i)
    \/ CloseCall(i)
    \/ SigintClose(i)
    \/ CloseReturn(i)

LifecycleSpec == LifecycleInit /\ [][LifecycleNext]_vars

-----------------------------------------------------------------------------
(* The excerpt on its own: search_notes by content on a vault whose only   *)
(* note a.md is a word between two runs of one character, the runs as long *)
(* as the context of the excerpt and shorter and longer.                   *)

RECURSIVE Repeat(_, _)
Repeat(c, n) == IF n = 0 THEN <<>> ELSE <<c>> \o Repeat(c, n - 1)

ExcerptPads ==
  {0, 1, ExcerptContext - 1, ExcerptContext, ExcerptContext + 1,
   ExcerptContext + 5}

ExcerptWord == <<"T","e">>

ExcerptBodies ==
  {Repeat(c, k) \o ExcerptWord \o Repeat(c, m) :
     c \in {"x", DottedI}, k \in ExcerptPads, m \in ExcerptPads}

ExcerptQueries == { <<"t","e">>, <<"T","E">>, <<"x">>, <<"e","x">> }

ExcerptVaults == { <<File(NameA, b, TRUE)>> : b \in ExcerptBodies }

ExcerptInit ==
  /\ vaultPath = <<"/","v">>
  /\ vault \in ExcerptVaults
  /\ request = NoRequest
  /\ response = Idle
  /\ storageOps = 0
  /\ remoteCalls = 0
  /\ invocations = [i \in Callers |-> NoInvocation]
  /\ client = NoClientCall
  /\ lifecycle = NotStarted

SearchByContent ==
  \E q \in ExcerptQueries :
    ObsidianCall("search_notes",
                 SearchArgs(q, <<FALSE, FALSE>>, <<FALSE, FALSE>>,
                            <<FALSE, <<>> >>, <<FALSE, 0>>))

ExcerptNext == SearchByContent \/ Return

ExcerptSpec == ExcerptInit /\ [][ExcerptNext]_vars

-----------------------------------------------------------------------------
(* The tag count on its own: list_tags on vaults of three top-level notes, *)
(* with and without tags.                                                  *)

TagDocs == {DocFull, DocNoTitle, DocPlain, DocTagTwice}

TagVaults ==
  { <<File(NameA, a, TRUE), File(NameB, b, TRUE), File(NameC, c, TRUE)>> :
      a \in TagDocs, b \in TagDocs, c \in TagDocs }

TagInit ==
  /\ vaultPath = <<"/","v">>
  /\ vault \in TagVaults
  /\ request = NoRequest
  /\ response = Idle
  /\ storageOps = 0
  /\ remoteCalls = 0
  /\ invocations = [i \in Callers |-> NoInvocation]
  /\ client = NoClientCall
  /\ lifecycle = NotStarted

TagNext == ListTagsCall \/ Return

TagSpec == TagInit /\ [][TagNext]_vars

-----------------------------------------------------------------------------
(* The completed call a state records                                      *)

IsCall(server, name) == request.server = server /\ request.name = name

WellFormedCall(required) ==
  request.args.kind = "object" /\ required \subseteq request.args.has

\* search_notes has returned a result list
SearchReturned ==
  IsCall("obsidian", "search_notes") /\ response.status = "ok"

GetNoteReturned == IsCall("obsidian", "get_note") /\ response.status = "ok"

ListTagsReturned == IsCall("obsidian", "list_tags") /\ response.status = "ok"

HasOption(key) == key \in request.args.has

-----------------------------------------------------------------------------
(* C1: no result of search_notes has a note.path that contains one of the  *)
(* excludeFolders strings as a substring.                                  *)

C1_ExcludedNeverReturned ==
  (SearchReturned /\ HasOption("excludeFolders")) =>
    \A i \in 1..Len(response.results) :
      \A k \in 1..Len(request.args.excludeFolders) :
        ~ Includes(response.results[i].note.path,
                   request.args.excludeFolders[k])

\* A search that returned results while the exclusion removed others: the
\* same search without excludeFolders returns more.
C1_Witness ==
  /\ SearchReturned /\ HasOption("excludeFolders")
  /\ request.args.excludeFolders # <<>>
  /\ response.results # <<>>
  /\ Len(searchNotes(vaultPath, vault, request.args.query,
                     [searchOptions(request.args) EXCEPT
                        !.has = @ \ {"excludeFolders"}]).results)
       > Len(response.results)

-----------------------------------------------------------------------------
(* C2: when a limit is given, search_notes returns at most `limit`         *)
(* results. Stated for the limits of 1 and more.                           *)

C2_LimitIsMaximum ==
  (SearchReturned /\ HasOption("limit") /\ request.args.limit >= 1) =>
    Len(response.results) <= request.args.limit

-----------------------------------------------------------------------------
(* C3: the results of search_notes are in non-increasing order of score.   *)

C3_NonIncreasingScore ==
  SearchReturned =>
    \A i \in 1..(Len(response.results) - 1) :
      response.results[i].score >= response.results[i + 1].score

\* Results of all three scores were returned, the walk having pushed a
\* content result (score 1) first.
C3_Witness ==
  /\ SearchReturned
  /\ Len(response.results) >= 3
  /\ response.results[1].score = 3
  /\ response.results[Len(response.results)].score = 1
  /\ \E i \in 1..Len(response.results) : response.results[i].score = 2

-----------------------------------------------------------------------------
\* The arguments a tool validates as required
RequiredOf(server, name) ==
  IF server = "obsidian"
  THEN CASE name = "search_notes" -> {"query"}
         [] name = "get_note" -> {"path"}
         [] OTHER -> {}
  ELSE {requiredArgs(name)[i] : i \in 1..Len(requiredArgs(name))}

MalformedCall ==
  /\ request.server # "none"
  /\ RequiredOf(request.server, request.name) # {}
  /\ ~ WellFormedCall(RequiredOf(request.server, request.name))

(* C4: a call of a tool that has required arguments, with arguments that   *)
(* are not an object or lack one of them, fails with the code              *)
(* InvalidParams, as its caller observes it.                               *)

C4_MalformedIsInvalidParams ==
  MalformedCall =>
    (response.status = "error" /\ response.code = InvalidParams)

-----------------------------------------------------------------------------
\* The name of the call is not one the switch of the server handles
UnknownCall ==
  \/ request.server = "obsidian" /\ request.name \notin ToolNames
  \/ request.server = "jira-confluence"
       /\ request.name \notin JiraConfluenceTools

(* C5: a call with a name that is not a registered tool fails with the     *)
(* code MethodNotFound, as its caller observes it, and makes no storage    *)
(* access and no remote request.                                           *)

C5_UnknownIsMethodNotFound ==
  UnknownCall =>
    /\ response.status = "error" /\ response.code = MethodNotFound
    /\ storageOps = 0 /\ remoteCalls = 0

-----------------------------------------------------------------------------
\* fs.readFile of the file get_note opens for the requested path
Opened ==
  FsAccess(vaultPath, vault, join(vaultPath, request.args.path \o MdExt))

GetNoteCalled == IsCall("obsidian", "get_note") /\ WellFormedCall({"path"})

\* No file of that name: a missing entry, or a path through a regular file
NoSuchFile == Opened.err \in {"ENOENT", "ENOTDIR"}

MessageHas(piece) ==
  \E i \in 1..Len(response.message) : response.message[i] = piece

(* C6: get_note on a path for which no <path>.md file exists returns no    *)
(* note: getNoteByPath returns null, the call fails with the message       *)
(* 'Note not found: <path>', and no ENOENT text reaches the caller.        *)

C6_MissingNoteIsNotFound ==
  (GetNoteCalled /\ NoSuchFile) =>
    /\ response.status = "error"
    /\ getNoteByPath(vaultPath, vault, request.args.path).kind = "null"
    /\ Includes(response.message,
                <<"Note not found: ">> \o request.args.path)
    /\ ~ MessageHas("ENOENT")

-----------------------------------------------------------------------------
(* C7: search_notes with the query '[', which is not a valid search        *)
(* pattern, is rejected with the code InvalidParams.                       *)

C7_InvalidPatternRejected ==
  (/\ IsCall("obsidian", "search_notes") /\ WellFormedCall({"query"})
   /\ request.args.query = <<"[">>) =>
    (response.status = "error" /\ response.code = InvalidParams)

-----------------------------------------------------------------------------
\* The tag lists of all documents of the vault, one per document path
VaultTagLists ==
  LET steps == walkFiles(NoOptions, vaultPath, vault)
      tagsAt(got) ==
        IF got.kind = "note" /\ "tags" \in got.note.metadata.keys
        THEN got.note.metadata.tags ELSE <<>>
  IN [i \in {j \in 1..Len(steps) : steps[j].kind = "file"} |->
        tagsAt(getNoteByPath(vaultPath, vault,
                             StripMd(relative(vaultPath, steps[i].path))))]

DocumentsTagged(lists, tag) ==
  Cardinality({i \in DOMAIN lists :
                 \E k \in 1..Len(lists[i]) : lists[i][k] = tag})

(* C8: list_tags reports every tag with the number of documents of the     *)
(* whole vault, subfolders included, that carry it.                        *)

C8_TagsCountedAcrossFolders ==
  (ListTagsReturned /\ (HasOption("minCount") => request.args.minCount = 0))
    => LET counted(lists) ==
             \A i \in DOMAIN lists : \A k \in 1..Len(lists[i]) :
               \E n \in 1..Len(response.tags) :
                 /\ response.tags[n].tag = lists[i][k]
                 /\ response.tags[n].count
                      = DocumentsTagged(lists, lists[i][k])
       IN counted(VaultTagLists)

-----------------------------------------------------------------------------
\* metadata.title is a non-empty string
HasTitle(note) ==
  "title" \in note.metadata.keys /\ note.metadata.title # <<>>

(* C9: every note get_note returns, and every note of a search result,     *)
(* has a metadata.title that is a non-empty string.                        *)

C9_TitleNeverEmpty ==
  /\ GetNoteReturned => HasTitle(response.note)
  /\ SearchReturned =>
       \A i \in 1..Len(response.results) : HasTitle(response.results[i].note)

-----------------------------------------------------------------------------
\* The requested document starts with a block that matches and parses
WellFormedFrontMatter ==
  /\ Opened.err = "ok"
  /\ frontmatterMatch(Opened.entry.raw).matched
  /\ YamlLoad(frontmatterMatch(Opened.entry.raw).block).ok

\* The metadata of the returned note is the parsed block, its created and
\* modified replaced by the timestamps of the file
BlockMetadataReturned(parsed, stats) ==
  /\ response.note.metadata.keys = parsed.keys \cup {"created", "modified"}
  /\ response.note.metadata.title = parsed.title
  /\ response.note.metadata.tags = parsed.tags
  /\ response.note.metadata.created = toISOString(stats.birthtime)
  /\ response.note.metadata.modified = toISOString(stats.mtime)

(* C10: for a document that starts with a well-formed front-matter block,  *)
(* get_note returns the text after the closing '---' line, trimmed of the  *)
(* whitespace around it, as content, and the keys of the parsed block as   *)
(* metadata, with created and modified set to the storage timestamps even  *)
(* when the block defines them.                                            *)

C10_FrontMatterLoadedTrimmed ==
  (GetNoteReturned /\ WellFormedFrontMatter) =>
    LET loadedAs(m) ==
          /\ response.note.content = Trim(m.rest)
          /\ BlockMetadataReturned(YamlLoad(m.block).value, Opened.entry)
    IN loadedAs(frontmatterMatch(Opened.entry.raw))

\* A note whose block defines created and whose body has whitespace around
\* it was returned
C10_Witness ==
  /\ GetNoteReturned /\ WellFormedFrontMatter
  /\ LET m == frontmatterMatch(Opened.entry.raw)
     IN /\ "created" \in YamlLoad(m.block).value.keys
        /\ Trim(m.rest) # m.rest

\* C10 as stated: the content is the whole text after the closing '---'
\* line, the metadata as above
C10_FrontMatterLoaded ==
  (GetNoteReturned /\ WellFormedFrontMatter) =>
    LET loadedAs(m) ==
          /\ response.note.content = m.rest
          /\ BlockMetadataReturned(YamlLoad(m.block).value, Opened.entry)
    IN loadedAs(frontmatterMatch(Opened.entry.raw))

-----------------------------------------------------------------------------
\* s has no whitespace at its start or its end
IsTrimmed(s) == Trim(s) = s

(* C11: the content of every note that get_note returns or that a search   *)
(* result carries has no leading and no trailing whitespace, whether or    *)
(* not the document had a front-matter block.                              *)

C11_ContentTrimmed ==
  /\ GetNoteReturned => IsTrimmed(response.note.content)
  /\ SearchReturned =>
       \A i \in 1..Len(response.results) :
         IsTrimmed(response.results[i].note.content)

-----------------------------------------------------------------------------
\* No element occurs twice
DuplicateFree(seq) ==
  \A i, j \in 1..Len(seq) : seq[i] = seq[j] => i = j

\* The targets of the link texts that occur in body
TargetsIn(body) == {lt[2] : lt \in {x \in LinkTexts : Includes(body, x[1])}}

(* C12: the links.to of a returned note is duplicate-free; a body with     *)
(* [[A]] or [[A|B]] has the target A, a body with [Label](x/y.md) has the  *)
(* target x/y, nothing else is a target, a target referenced several times *)
(* appears once, and extracting again from the same body gives the same    *)
(* list.                                                                   *)

-----------------------------------------------------------------------------
\* search_notes has returned, called without a true includeTags, without a
\* true includePath and without a limit
ContentOnlySearch ==
  /\ SearchReturned
  /\ ~ (HasOption("includeTags") /\ request.args.includeTags)
  /\ ~ (HasOption("includePath") /\ request.args.includePath)
  /\ ~ HasOption("limit")

\* The documents the walk of the request yields, as paths below the vault
WalkedDocuments ==
  LET steps == walkFiles(searchOptions(request.args), vaultPath, vault)
  IN {relative(vaultPath, steps[i].path) :
        i \in {j \in 1..Len(steps) : steps[j].kind = "file"}}

NoteAt(relativePath) == getNoteByPath(vaultPath, vault, StripMd(relativePath))

\* The content of the document contains the query, case ignored
ContainsQuery(relativePath) ==
  /\ NoteAt(relativePath).kind = "note"
  /\ Includes(ToLowerCase(NoteAt(relativePath).note.content),
              ToLowerCase(request.args.query))

ResultPaths == {response.results[i].note.path : i \in 1..Len(response.results)}

(* C13: with includeTags and includePath false or absent and no limit,     *)
(* search_notes returns exactly one result for every walked document whose *)
(* content contains the query, case ignored, every result is a content     *)
(* result, and no other document appears, whatever its tags, path or title *)
(* contain.                                                                *)

C13_ContentMatchesOnly ==
  ContentOnlySearch =>
    /\ \A i \in 1..Len(response.results) :
         response.results[i].matchType = "content"
    /\ ResultPaths = {p \in WalkedDocuments : ContainsQuery(p)}
    /\ Len(response.results) = Cardinality(ResultPaths)

\* A result whose content contains the query in another case only, beside a
\* walked document that is not returned although one of its tags contains
\* the query
C13_Witness ==
  /\ ContentOnlySearch
  /\ \E i \in 1..Len(response.results) :
       ~ Includes(response.results[i].note.content, request.args.query)
  /\ \E p \in WalkedDocuments \ ResultPaths :
       /\ NoteAt(p).kind = "note"
       /\ \E k \in 1..Len(NoteAt(p).note.metadata.tags) :
            Includes(NoteAt(p).note.metadata.tags[k], request.args.query)

-----------------------------------------------------------------------------
\* list_tags was called and the aggregator returned its entries
TagsAggregated ==
  /\ IsCall("obsidian", "list_tags")
  /\ getAllTags(vaultPath, vault).kind = "ok"

\* The minCount of the call, 0 when the arguments have none
RequestedMinCount ==
  IF HasOption("minCount") THEN request.args.minCount ELSE 0

AtLeast(t) == t.count >= RequestedMinCount

(* C14: list_tags returns exactly the entries of getAllTags whose count is *)
(* at least minCount, in the order getAllTags produced them, and every     *)
(* entry when the call gives no minCount.                                  *)

C14_TagsFilteredByMinCount ==
  TagsAggregated =>
    /\ response.status = "ok"
    /\ response.tags = SelectSeq(getAllTags(vaultPath, vault).tags, AtLeast)

-----------------------------------------------------------------------------
\* What getNoteByPath gives for the path of the get_note call
Got == getNoteByPath(vaultPath, vault, request.args.path)

(* C15: getNoteByPath returns null if and only if the file access fails    *)
(* with ENOENT; every other storage failure is thrown with its own error   *)
(* and reaches the caller of get_note as an error that names it; a note is *)
(* returned only when the access succeeds, and a failed call carries no    *)
(* note.                                                                   *)

C15_NullOnlyForENOENT ==
  GetNoteCalled =>
    /\ Got.kind = "null" <=> Opened.err = "ENOENT"
    /\ Got.kind = "note" <=> Opened.err = "ok"
    /\ Opened.err \notin {"ok", "ENOENT"} =>
         /\ Got.kind = "throw" /\ Got.errno = Opened.err
         /\ response.status = "error" /\ MessageHas(Opened.err)
    /\ Got.kind # "note" => (Got.note = NoNote /\ response.note = NoNote)

\* get_note on the folder d.md: the read fails with EISDIR
C15_Witness ==
  /\ GetNoteCalled
  /\ Opened.err = "EISDIR"
  /\ response.status = "error" /\ MessageHas("EISDIR")

-----------------------------------------------------------------------------
\* The listings fs.readdir may return for one directory: its entries in
\* every order
ListingOrders(listing) ==
  {[i \in 1..Len(listing) |-> listing[p[i]]] :
     p \in Permutations(1..Len(listing))}

\* The same elements the same number of times
SameUpToOrder(a, b) ==
  /\ Len(a) = Len(b)
  /\ \A i \in 1..Len(a) :
       Cardinality({j \in 1..Len(a) : a[j] = a[i]})
         = Cardinality({j \in 1..Len(b) : b[j] = a[i]})

(* C16: for the same vault and the same arguments, with or without a       *)
(* limit, search_notes returns the same results up to the order of results *)
(* of equal score, whatever order the listing of the vault root has.       *)

C16_DiscoveryOrderIrrelevant ==
  SearchReturned =>
    \A other \in ListingOrders(vault) :
      LET same(r) ==
            r.kind = "ok" /\ SameUpToOrder(r.results, response.results)
      IN same(searchNotes(vaultPath, other, request.args.query,
                          searchOptions(request.args)))

-----------------------------------------------------------------------------
\* The invocation has made its last await
Returned(i) == invocations[i].kind # "none" /\ invocations[i].steps = <<>>

\* What the invocation gives to its caller
ResultOf(i) ==
  CASE invocations[i].kind = "search" -> searchFinish(invocations[i].acc)
    [] invocations[i].kind = "tags" -> tagFinish(invocations[i].acc)
    [] OTHER -> invocations[i].acc

\* What the same call gives when nothing else runs
AloneResult(i) ==
  CASE invocations[i].kind = "search" ->
         searchNotes(vaultPath, vault, invocations[i].query,
                     invocations[i].options)
    [] invocations[i].kind = "tags" -> getAllTags(vaultPath, vault)
    [] OTHER -> getNoteByPath(vaultPath, vault, invocations[i].path)

(* C17: when two invocations of searchNotes, getAllTags or getNoteByPath   *)
(* on one VaultClient interleave at their awaits over an unchanging vault, *)
(* each returns exactly what it returns when it runs alone.                *)

C17_InterleavingChangesNothing ==
  \A i \in Callers : Returned(i) => ResultOf(i) = AloneResult(i)

\* Two searches have returned results after loading the same documents
C17_Witness ==
  /\ \A i \in Callers : Returned(i) /\ invocations[i].kind = "search"
  /\ invocations[1].acc.loaded = invocations[2].acc.loaded
  /\ Len(invocations[1].acc.loaded) = 2
  /\ invocations[1].acc.results # <<>>
  /\ invocations[2].acc.results # <<>>

-----------------------------------------------------------------------------
(* C18: the Confluence client has at most one request in flight at any     *)
(* moment, also during bulkGetPages over several page ids.                 *)

C18_OneRequestInFlight == client.inFlight <= 1

-----------------------------------------------------------------------------
\* A bulk call, at the tool or at the client
BulkCalled == client.kind \in {"tool", "bulk"}

(* C19: a bulk page request with more than 10 page ids, or with pageIds    *)
(* that is not an array, is rejected at the tool and at                    *)
(* ConfluenceClient.bulkGetPages without any request having been sent.     *)

C19_OversizedBulkRejected ==
  (BulkCalled /\ (client.pageIds > 10 \/ ~ client.pageIdsIsArray)) =>
    /\ client.state = "rejected"
    /\ client.issued = 0 /\ client.inFlight = 0

\* bulkGetPages of the client was called with an array of 11 page ids
C19_Witness ==
  /\ client.kind = "bulk" /\ client.pageIdsIsArray /\ client.pageIds = 11
  /\ client.state = "rejected" /\ client.issued = 0

-----------------------------------------------------------------------------
\* The step loads a document for the search i: its loop has taken a path of
\* the walk and called getNoteByPath
LoadsDocument(i) ==
  /\ invocations[i].kind = "search"
  /\ invocations[i].steps # <<>>
  /\ Head(invocations[i].steps).kind = "file"
  /\ invocations'[i].acc.ops > invocations[i].acc.ops

(* C20: when a limit is given, 0 included, a search loads a document only  *)
(* while the number of results it has accumulated is less than the limit.  *)

C20_NoLoadAtLimit ==
  [][\A i \in Callers :
       (LoadsDocument(i) /\ "limit" \in invocations[i].options.has) =>
         Len(invocations[i].acc.results) < invocations[i].options.limit]_vars

-----------------------------------------------------------------------------
\* search_notes was called with a query, without a true includePath
SearchCalled ==
  /\ IsCall("obsidian", "search_notes") /\ WellFormedCall({"query"})
  /\ ~ (HasOption("includePath") /\ request.args.includePath)

\* The walked documents getNoteByPath gives no note for
FailedDocuments == {p \in WalkedDocuments : NoteAt(p).kind # "note"}

(* C21: during search_notes a document that fails to load, for any kind of *)
(* failure, unreadable file included, is skipped: the search returns, and  *)
(* without a limit it returns the results of every walked document that    *)
(* did load.                                                               *)

C21_LoadFailureSkipped ==
  (SearchCalled /\ FailedDocuments # {}) =>
    /\ response.status = "ok"
    /\ ~ HasOption("limit") =>
         \A p \in WalkedDocuments \ FailedDocuments :
           ContainsQuery(p) => p \in ResultPaths

-----------------------------------------------------------------------------
\* The result has the fields of its match type
WellShaped(r) ==
  /\ r.matchType \in {"content", "tag", "title"}
  /\ r.score = 1 <=> r.matchType = "content"
  /\ r.score = 2 <=> r.matchType = "tag"
  /\ r.score = 3 <=> r.matchType = "title"
  /\ r.hasExcerpt <=> r.matchType = "content"

\* The positions of the results of one document
ResultsOf(path) ==
  {i \in 1..Len(response.results) : response.results[i].note.path = path}

(* C22: in every result list of search_notes the score is 1 exactly on     *)
(* content results, 2 exactly on tag results and 3 exactly on title        *)
(* results; an excerpt is present exactly on content results; tag results  *)
(* occur only when includeTags is true and title results only when         *)
(* includePath is true; a document has at most one result of each match    *)
(* type.                                                                   *)

C22_ResultShape ==
  SearchReturned =>
    /\ \A i \in 1..Len(response.results) :
         /\ WellShaped(response.results[i])
         /\ response.results[i].matchType = "tag" =>
              (HasOption("includeTags") /\ request.args.includeTags)
         /\ response.results[i].matchType = "title" =>
              (HasOption("includePath") /\ request.args.includePath)
    /\ \A i, j \in 1..Len(response.results) :
         (/\ response.results[i].note.path = response.results[j].note.path
          /\ response.results[i].matchType = response.results[j].matchType)
           => i = j

\* Two documents were returned, one with three results and one with fewer
C22_Witness ==
  /\ SearchReturned
  /\ \E p, q \in ResultPaths :
       /\ Cardinality(ResultsOf(p)) = 3
       /\ Cardinality(ResultsOf(q)) \in {1, 2}

-----------------------------------------------------------------------------
\* The query occurs in the content at the index i, case ignored
OccursAt(content, query, i) ==
  ToLowerCase(SubSeq(content, i + 1, i + Len(query))) = ToLowerCase(query)

\* The index of the first occurrence of the query in the content, case
\* ignored
FirstOccurrence(content, query) ==
  CHOOSE i \in 0..Len(content) :
    /\ OccursAt(content, query, i)
    /\ \A j \in 0..(i - 1) : ~ OccursAt(content, query, j)

\* '...' + content[start, end) + '...' around the occurrence at i
ExcerptAround(content, query, i) ==
  Ellipsis
    \o Slice(content, Max(0, i - 40), Min(Len(content), i + Len(query) + 40))
    \o Ellipsis

(* C23: the excerpt of a content result is '...' + content[start, end) +   *)
(* '...' with start = max(0, i - 40), end = min(len(content), i +          *)
(* len(query) + 40) and i the index of the first occurrence of the query   *)
(* in the content, case ignored; the excerpt contains the matched text and *)
(* has at most len(query) + 86 characters.                                 *)

C23_ExcerptAroundMatch ==
  SearchReturned =>
    \A k \in 1..Len(response.results) :
      LET r == response.results[k]
          i == FirstOccurrence(r.note.content, request.args.query)
      IN r.matchType = "content" =>
           /\ r.excerpt = ExcerptAround(r.note.content, request.args.query, i)
           /\ Includes(r.excerpt,
                       SubSeq(r.note.content, i + 1,
                              i + Len(request.args.query)))
           /\ Len(r.excerpt) <= Len(request.args.query) + 86

-----------------------------------------------------------------------------
\* The results of the search_notes call in the order the walk pushed them
Emitted ==
  searchLoop(vaultPath, vault, request.args.query,
             searchOptions(request.args), searchStart,
             walkFiles(searchOptions(request.args), vaultPath, vault)).results

PositionIn(seq, r) == CHOOSE k \in 1..Len(seq) : seq[k] = r

(* C24: the sort of search_notes is stable: the returned list holds the    *)
(* emitted results, and results of equal score are in the order in which   *)
(* the walk emitted them.                                                  *)

C24_SortIsStable ==
  SearchReturned =>
    /\ SameUpToOrder(response.results, Emitted)
    /\ \A i, j \in 1..Len(response.results) :
         (/\ i < j
          /\ response.results[i].score = response.results[j].score)
           => PositionIn(Emitted, response.results[i])
                < PositionIn(Emitted, response.results[j])

\* The sort moved results, and two documents have results of one score
C24_Witness ==
  /\ SearchReturned
  /\ response.results # Emitted
  /\ \E i, j \in 1..Len(response.results) :
       /\ i < j
       /\ response.results[i].score = response.results[j].score
       /\ response.results[i].note.path # response.results[j].note.path

-----------------------------------------------------------------------------
\* The tag lists of the documents getAllTags scans, the notes at the top of
\* the vault, one per document; a document without tags has the empty list
ScannedTagLists ==
  LET names == tagScanNames(vault)
      tagsAt(got) ==
        IF got.kind = "note" /\ "tags" \in got.note.metadata.keys
        THEN got.note.metadata.tags ELSE <<>>
  IN [i \in {j \in 1..Len(names) : EndsWith(names[j], MdExt)} |->
        tagsAt(getNoteByPath(vaultPath, vault, StripMd(names[i])))]

\* The tags of the lists
TagsSeen(lists) ==
  UNION {{lists[i][k] : k \in 1..Len(lists[i])} : i \in DOMAIN lists}

(* C25: list_tags without a minimum reports exactly the tags seen in the   *)
(* scanned documents, each once, and the count of a tag is the number of   *)
(* scanned documents whose tags contain it.                                *)

C25_CountsMatchRecount ==
  (ListTagsReturned /\ RequestedMinCount = 0) =>
    /\ {response.tags[n].tag : n \in 1..Len(response.tags)}
         = TagsSeen(ScannedTagLists)
    /\ Len(response.tags) = Cardinality(TagsSeen(ScannedTagLists))
    /\ \A n \in 1..Len(response.tags) :
         response.tags[n].count
           = DocumentsTagged(ScannedTagLists, response.tags[n].tag)

-----------------------------------------------------------------------------
(* C26: nextPageStart is defined exactly when hasNext is true, and a       *)
(* caller that requests the page at nextPageStart until hasNext is false   *)
(* has received every matching page exactly once, in order, also when the  *)
(* remote returns fewer items per page than the limit asked for.           *)

C26_PaginationAccurate ==
  client.kind = "search" =>
    /\ "nextPageStart" \in client.keys <=> client.hasNext
    /\ client.state = "done" =>
         client.results = [i \in 1..client.matching |-> i - 1]

-----------------------------------------------------------------------------
\* The documents the search_notes call loaded and evaluated, in order
Evaluated ==
  searchLoop(vaultPath, vault, request.args.query,
             searchOptions(request.args), searchStart,
             walkFiles(searchOptions(request.args), vaultPath, vault)).loaded

\* The number of results accumulated when the k-th evaluated document was
\* loaded
AccumulatedBefore(k) ==
  Cardinality({i \in 1..Len(Emitted) :
                 \E m \in 1..(k - 1) : Emitted[i].note.path = Evaluated[m]})

(* C27: with a positive limit L search_notes returns at most L + 2         *)
(* results, and every document but the last one evaluated was loaded while *)
(* fewer than L results had been accumulated.                              *)

C27_OvershootBounded ==
  (SearchReturned /\ HasOption("limit") /\ request.args.limit > 0) =>
    /\ Len(response.results) <= request.args.limit + 2
    /\ \A k \in 1..(Len(Evaluated) - 1) :
         AccumulatedBefore(k) < request.args.limit

\* The limit was overshot by two after more than one document was loaded
C27_Witness ==
  /\ SearchReturned /\ HasOption("limit") /\ request.args.limit > 0
  /\ Len(response.results) = request.args.limit + 2
  /\ Len(Evaluated) >= 2

-----------------------------------------------------------------------------
\* Every .md document under the vault root, as a path below the vault
AllDocuments ==
  LET steps == walkFiles(NoOptions, vaultPath, vault)
  IN {relative(vaultPath, steps[i].path) :
        i \in {j \in 1..Len(steps) : steps[j].kind = "file"}}

\* The path below the vault contains one of the excludeFolders strings
ExcludedByLocation(relativePath) ==
  /\ HasOption("excludeFolders")
  /\ \E k \in 1..Len(request.args.excludeFolders) :
       Includes(relativePath, request.args.excludeFolders[k])

(* C28: without a limit, search_notes loads and evaluates every .md        *)
(* document under the vault root whose path below the vault contains none  *)
(* of the excludeFolders strings, whatever the path of the vault root is.  *)

C28_VisitedByLocation ==
  (SearchReturned /\ ~ HasOption("limit")) =>
    \A p \in AllDocuments :
      ~ ExcludedByLocation(p) => \E k \in 1..Len(Evaluated) : Evaluated[k] = p

-----------------------------------------------------------------------------
\* The step returns from a close() that awaited server.close()
CloseCompletes(i) ==
  lifecycle.calls[i] = "closing" /\ lifecycle'.calls[i] = "idle"

(* C29: in every interleaving of start() and close() calls, a close() run  *)
(* by SIGINT included, server.close() has been invoked at most once for    *)
(* each start(), a close() without a start() before it invokes nothing,    *)
(* and when a close() returns the transport is undefined.                  *)

C29_CloseOncePerStart ==
  [][/\ lifecycle'.serverCloses <= lifecycle'.connects
     /\ \A i \in LifecycleCallers :
          CloseCompletes(i) => ~ lifecycle'.transport]_vars

-----------------------------------------------------------------------------
(* C30: list_tags called without an arguments object gives the caller what *)
(* list_tags called with an empty object gives: every tag, without error.  *)

C30_NoArgumentsListsAll ==
  (IsCall("obsidian", "list_tags") /\ request.args.kind = "undefined") =>
    response = handleListTags(vaultPath, vault, ToolArgs("object", {}))

====
